---- MODULE Spec2Model ----
(***************************************************************************)
(* EchoScript AI: the transcription session of App.tsx, the file uploader  *)
(* that feeds it and the Gemini service client with its response parser.   *)
(*                                                                         *)
(* The React state of App (mode, status, audioData, result, error) and of  *)
(* FileUploader (fileName) are the variables.  Every event handler is one  *)
(* action: React batches the setState calls of a handler and renders once, *)
(* so what is rendered (and therefore which handler the user can reach) is *)
(* a function of the state the previous handler left.  The two suspension  *)
(* points of the program, FileReader.readAsDataURL and the await of        *)
(* transcribeAudio, are modelled by messages in flight (reading, inflight) *)
(* whose completion is an action of its own.                               *)
(***************************************************************************)
EXTENDS Integers, Sequences, FiniteSets, TLC

VARIABLES mode, status, audioData, result, error, apiKey,
          fileName, reading, inflight, sent, resultFrom, last, selected

vars == <<mode, status, audioData, result, error, apiKey,
          fileName, reading, inflight, sent, resultFrom, last, selected>>

session == <<status, audioData, result, error>>

(***************************************************************************)
(* Bounds                                                                  *)
(***************************************************************************)
\* transcription attempts of one run (handleTranscribe calls)
MaxSent == 3
\* lexemes of an arbitrary service text
MaxTextLen == 2

(***************************************************************************)
(* JavaScript null, for the nullable useState cells                        *)
(***************************************************************************)
Null == [kind |-> "null"]
\* a string held in a nullable cell
Str(s) == [kind |-> "string", value |-> s]

(***************************************************************************)
(* Files the user can drop or pick.  A MIME type is the sequence of its    *)
(* lexemes, so that startsWith is a prefix test; bytes are the content.    *)
(***************************************************************************)
Files ==
  { [name |-> "a.wav", type |-> <<"audio/", "wav">>,  bytes |-> <<77>>],
    [name |-> "b.mp4", type |-> <<"video/", "mp4">>,  bytes |-> <<251, 255, 190, 0, 16>>],
    [name |-> "c.txt", type |-> <<"text/", "plain">>, bytes |-> <<255, 0>>],
    [name |-> "d",     type |-> <<>>,                 bytes |-> <<>>] }

startsWith(s, prefix) ==
  /\ Len(prefix) <= Len(s)
  /\ SubSeq(s, 1, Len(prefix)) = prefix

\* the 64 characters of standard base64, index sextet + 1
B64Chars ==
  << "A","B","C","D","E","F","G","H","I","J","K","L","M","N","O","P",
     "Q","R","S","T","U","V","W","X","Y","Z","a","b","c","d","e","f",
     "g","h","i","j","k","l","m","n","o","p","q","r","s","t","u","v",
     "w","x","y","z","0","1","2","3","4","5","6","7","8","9","+","/" >>

RECURSIVE Base64(_)
\* standard base64 of a byte sequence, "=" padded, as FileReader encodes it
Base64(bytes) ==
  IF Len(bytes) = 0 THEN <<>>
  ELSE IF Len(bytes) = 1 THEN
    << B64Chars[(bytes[1] \div 4) + 1],
       B64Chars[((bytes[1] % 4) * 16) + 1], "=", "=" >>
  ELSE IF Len(bytes) = 2 THEN
    << B64Chars[(bytes[1] \div 4) + 1],
       B64Chars[((bytes[1] % 4) * 16 + (bytes[2] \div 16)) + 1],
       B64Chars[((bytes[2] % 16) * 4) + 1], "=" >>
  ELSE
    << B64Chars[(bytes[1] \div 4) + 1],
       B64Chars[((bytes[1] % 4) * 16 + (bytes[2] \div 16)) + 1],
       B64Chars[((bytes[2] % 16) * 4 + (bytes[3] \div 64)) + 1],
       B64Chars[(bytes[3] % 64) + 1] >>
    \o Base64(SubSeq(bytes, 4, Len(bytes)))

\* FileReader.readAsDataURL: "data:<type>;base64,<base64 of the content>"
readAsDataURL(file) ==
  <<"data:">> \o file.type \o <<";base64", ",">> \o Base64(file.bytes)

\* the sextet a base64 character stands for
B64Index(c) == (CHOOSE i \in 1..64 : B64Chars[i] = c) - 1

RECURSIVE Base64Decode(_)
\* the bytes a padded base64 text stands for, as the service decodes the
\* inline data of a request
Base64Decode(text) ==
  IF Len(text) < 4 THEN <<>>
  ELSE
    LET i1 == B64Index(text[1])
        i2 == B64Index(text[2])
        rest == Base64Decode(SubSeq(text, 5, Len(text)))
    IN IF text[3] = "=" THEN
         <<i1 * 4 + (i2 \div 16)>> \o rest
       ELSE IF text[4] = "=" THEN
         <<i1 * 4 + (i2 \div 16),
           (i2 % 16) * 16 + (B64Index(text[3]) \div 4)>> \o rest
       ELSE
         <<i1 * 4 + (i2 \div 16),
           (i2 % 16) * 16 + (B64Index(text[3]) \div 4),
           (B64Index(text[3]) % 4) * 64 + B64Index(text[4])>> \o rest

RECURSIVE split(_, _)
\* String.prototype.split on a one-character separator
split(s, sep) ==
  IF \A i \in 1..Len(s) : s[i] # sep THEN <<s>>
  ELSE LET i == CHOOSE k \in 1..Len(s) :
                  s[k] = sep /\ \A j \in 1..(k - 1) : s[j] # sep
       IN <<SubSeq(s, 1, i - 1)>> \o split(SubSeq(s, i + 1, Len(s)), sep)

\* an onloadend that passes reader.result on without the split
FilePayloadKeepsPrefix(file) ==
  [blob |-> file.name,
   base64 |-> readAsDataURL(file),
   mimeType |-> file.type]

\* the AudioData that reader.onloadend hands to onFileSelected
FilePayload(file) ==
  [blob |-> file.name,
   base64 |-> split(readAsDataURL(file), ",")[2],
   mimeType |-> file.type]

(***************************************************************************)
(* Service texts.  A text is the sequence of its lexemes: the three        *)
(* backticks, the word json, a newline, a blank, a word that is not JSON,  *)
(* and whole JSON documents.  The documents and the values JSON.parse      *)
(* gives for them:                                                         *)
(***************************************************************************)
Seg1 == [speaker |-> "Speaker 1", timestamp |-> "00:00 - 00:05",
         content |-> "Nice day.", language |-> "English",
         language_code |-> "en", emotion |-> "Happy"]
Seg2 == [speaker |-> "Speaker 2", timestamp |-> "00:05 - 00:09",
         content |-> "Indeed.", language |-> "English",
         language_code |-> "en", emotion |-> "Neutral"]

Transcript(summary, segments) ==
  [kind |-> "object", summary |-> summary, segments |-> segments]

\* the JavaScript value [] : an array, with no summary and no segments
EmptyArray == [kind |-> "array", items |-> <<>>]

DocLexemes == {"{A}", "{B}", "{C}", "null", "[]"}

DocValue(d) ==
  CASE d = "{A}" -> Transcript("Two speakers discuss weather.", <<Seg1>>)
    [] d = "{B}" -> Transcript("Greeting.", <<Seg1, Seg2>>)
    [] d = "{C}" -> Transcript("Greeting.", <<Seg2, Seg1>>)
    [] d = "null" -> Null
    [] d = "[]" -> EmptyArray

\* the three backticks of a code fence (a string cannot hold a backtick)
Ticks == "<ticks>"

Whitespace == {"\n", " "}

Lexemes == {Ticks, "json", "oops"} \cup Whitespace \cup DocLexemes

RECURSIVE SeqsUpTo(_, _)
SeqsUpTo(S, n) ==
  IF n = 0 THEN {<<>>}
  ELSE LET shorter == SeqsUpTo(S, n - 1)
       IN shorter \cup {Append(s, x) : s \in shorter, x \in S}

\* a document inside a fenced code block: <ticks>json\n ... \n<ticks>
Fenced(d) == <<Ticks, "json", "\n", d, "\n", Ticks>>

\* a text inside a fenced code block: a <ticks>json line before it and a
\* <ticks> line after it
Wrap(t) == <<Ticks, "json", "\n">> \o t \o <<"\n", Ticks>>

\* every text of at most MaxTextLen lexemes, bare and inside a code block
Texts ==
  SeqsUpTo(Lexemes, MaxTextLen) \cup {Wrap(t) : t \in SeqsUpTo(Lexemes, MaxTextLen)}

\* the texts the service answers a request with: the empty text, documents
\* bare, padded and fenced, and texts that are no JSON
ServiceTexts ==
  { <<>>, <<"{A}">>, <<"{B}">>, <<"{C}">>, <<"null">>, <<"[]">>,
    <<" ", "{A}", "\n">>, Fenced("{A}"), Fenced("{B}"),
    <<"oops">>, <<" ">>, Fenced("oops"), <<Ticks, "\n", "{A}", "\n", Ticks>> }

RECURSIVE stripFencesOpeningOnly(_)
\* stripFences with the second alternative of the pattern lost
stripFencesOpeningOnly(s) ==
  IF s = <<>> THEN <<>>
  ELSE IF startsWith(s, <<Ticks, "json", "\n">>)
       THEN stripFencesOpeningOnly(SubSeq(s, 4, Len(s)))
  ELSE <<Head(s)>> \o stripFencesOpeningOnly(Tail(s))

\* stripFences without the g flag: only the first match is replaced
stripFencesOnce(s) ==
  IF \E i \in 1..Len(s) :
       \/ startsWith(SubSeq(s, i, Len(s)), <<Ticks, "json", "\n">>)
       \/ startsWith(SubSeq(s, i, Len(s)), <<"\n", Ticks>>)
  THEN LET i == CHOOSE k \in 1..Len(s) :
                  /\ \/ startsWith(SubSeq(s, k, Len(s)), <<Ticks, "json", "\n">>)
                     \/ startsWith(SubSeq(s, k, Len(s)), <<"\n", Ticks>>)
                  /\ \A j \in 1..(k - 1) :
                       /\ ~startsWith(SubSeq(s, j, Len(s)), <<Ticks, "json", "\n">>)
                       /\ ~startsWith(SubSeq(s, j, Len(s)), <<"\n", Ticks>>)
       IN SubSeq(s, 1, i - 1) \o
          SubSeq(s, IF s[i] = Ticks THEN i + 3 ELSE i + 2, Len(s))
  ELSE s

RECURSIVE stripFences(_)
\* text.replace(/<ticks>json\n|\n<ticks>/g, ""): left to right, first alternative first
stripFences(s) ==
  IF s = <<>> THEN <<>>
  ELSE IF startsWith(s, <<Ticks, "json", "\n">>)
       THEN stripFences(SubSeq(s, 4, Len(s)))
  ELSE IF startsWith(s, <<"\n", Ticks>>)
       THEN stripFences(SubSeq(s, 3, Len(s)))
  ELSE <<Head(s)>> \o stripFences(Tail(s))

RECURSIVE trim(_)
\* String.prototype.trim
trim(s) ==
  IF s = <<>> THEN <<>>
  ELSE IF Head(s) \in Whitespace THEN trim(Tail(s))
  ELSE IF s[Len(s)] \in Whitespace THEN trim(SubSeq(s, 1, Len(s) - 1))
  ELSE s

\* JSON.parse accepts exactly one document (white space around it allowed)
JSONParses(s) == Len(trim(s)) = 1 /\ trim(s)[1] \in DocLexemes

JSONParse(s) == DocValue(trim(s)[1])

parseJson(text) ==
  LET cleanText == trim(stripFences(text))
  IN IF JSONParses(cleanText) THEN JSONParse(cleanText)
     ELSE EmptyArray

(***************************************************************************)
(* transcribeAudio, after its credential check: the awaited generateContent*)
(* either throws or answers with a text; the promise the caller awaits     *)
(* resolves with the parsed data or rejects.                               *)
(***************************************************************************)
Replies == {[kind |-> "throw", text |-> <<>>]}
           \cup {[kind |-> "text", text |-> t] : t \in ServiceTexts}

NoReply == [kind |-> "none", text |-> <<>>]

\* the details of the errors transcribeAudio throws or lets through
MissingKeyError == "API Key is missing. Please ensure process.env.API_KEY is available."
NoTextError == "No response text received from Gemini."
ServiceError == "generateContent failed"
ErrorDetails == {MissingKeyError, NoTextError, ServiceError}

Resolved(data) == [ok |-> TRUE, data |-> data, err |-> ""]
Rejected(detail) == [ok |-> FALSE, data |-> Null, err |-> detail]

\* transcribeAudio with a parser that lets the exception of JSON.parse out
transcribeAudioParseThrows(reply) ==
  IF reply.kind = "throw" THEN Rejected(ServiceError)
  ELSE IF reply.text = <<>> THEN Rejected(NoTextError)
  ELSE IF ~JSONParses(trim(stripFences(reply.text))) THEN Rejected("SyntaxError")
  ELSE Resolved(parseJson(reply.text))

transcribeAudio(reply) ==
  IF reply.kind = "throw" THEN Rejected(ServiceError)
  ELSE IF reply.text = <<>> THEN Rejected(NoTextError)
  ELSE Resolved(parseJson(reply.text))

\* JavaScript truthiness of a nullable state cell (objects and arrays are truthy)
Truthy(v) == v # Null

ErrorMessage == Str("An error occurred during transcription. Please try again.")

\* a catch block that shows the message of the error it caught
userMessageOfError(err) == Str(err)

\* the catch block of handleTranscribe: the error is logged, the message is fixed
userMessage(err) == ErrorMessage

(***************************************************************************)
(* State                                                                   *)
(*   mode, status, audioData, result, error : useState cells of App        *)
(*   apiKey      : whether process.env.API_KEY is set (fixed for a run)    *)
(*   fileName    : useState cell of FileUploader (lost when it unmounts)   *)
(*   reading     : files whose FileReader has not fired onloadend yet      *)
(*   inflight    : generateContent calls that have not answered yet        *)
(*   sent        : number of generateContent calls made so far             *)
(*   resultFrom  : history, the payload the held result was computed from  *)
(*   last        : history, the handler that ran last                      *)
(***************************************************************************)
RecordedPayload ==
  [blob |-> "recording", base64 |-> Base64(<<26, 69>>),
   mimeType |-> <<"audio/", "webm">>]

\* processFile without its type check
AcceptedAnyType(file) == TRUE

Accepted(file) ==
  startsWith(file.type, <<"audio/">>) \/ startsWith(file.type, <<"video/">>)

Payloads == {FilePayload(f) : f \in {g \in Files : Accepted(g)}} \cup {RecordedPayload}

\* history of the uploader: the file processFile accepted last, and how the
\* read that processFile started for it has ended, if it has
Selected(file, read) == [file |-> file, read |-> read]

\* history of the handler that ran last: its name, the status and payload it
\* found, what it was given (req: the captured payload, the file, or the
\* payload a settled request carried), and for a settled request the
\* service's reply and whether a capture or reset had come in between
Did(op, reply, req, stale) ==
  [op |-> op, from |-> status, payload |-> audioData,
   reply |-> reply, req |-> req, stale |-> stale]

Init ==
  /\ mode = "record"
  /\ status = "idle"
  /\ audioData = Null
  /\ result = Null
  /\ error = Null
  /\ apiKey \in BOOLEAN
  /\ fileName = Null
  /\ reading = {}
  /\ inflight = {}
  /\ sent = 0
  /\ resultFrom = Null
  /\ last = Did("init", NoReply, Null, FALSE)
  /\ selected = Null

\* the values of the Emotion enumeration
Emotion == {"Happy", "Sad", "Angry", "Neutral"}

\* a response schema that leaves the emotion of a segment optional
responseSchemaEmotionOptional ==
  [required |-> {"summary", "segments"},
   segments |->
     [properties |-> {"speaker", "timestamp", "content", "language",
                      "language_code", "translation", "emotion"},
      required |-> {"speaker", "timestamp", "content", "language",
                    "language_code"},
      emotion |-> Emotion]]

\* config.responseSchema: the properties and the required list of the
\* object and of the items of its segments, and the enum of emotion
responseSchema ==
  [required |-> {"summary", "segments"},
   segments |->
     [properties |-> {"speaker", "timestamp", "content", "language",
                      "language_code", "translation", "emotion"},
      required |-> {"speaker", "timestamp", "content", "language",
                    "language_code", "emotion"},
      emotion |-> Emotion]]

\* one call of ai.models.generateContent, awaited by handleTranscribe
Request(id, payload) ==
  [id |-> id, payload |-> payload, schema |-> responseSchema,
   superseded |-> FALSE]

\* a request that was in flight when a capture or a reset happened
Superseded(r) == [r EXCEPT !.superseded = TRUE]

(***************************************************************************)
(* The three handlers of App                                               *)
(***************************************************************************)
handleAudioReady(data) ==
  /\ audioData' = data
  /\ error' = Null
  /\ result' = Null
  /\ resultFrom' = Null
  /\ inflight' = {Superseded(r) : r \in inflight}
  /\ UNCHANGED <<status, sent, apiKey>>

\* transcribeAudio's first statement: if (!process.env.API_KEY) throw
credentialIgnored == FALSE
credentialMissing == ~apiKey

\* handleTranscribe without its first statement, if (!audioData) return
handleTranscribeWithoutGuard ==
  IF credentialMissing THEN
    /\ error' = userMessage(MissingKeyError)
    /\ status' = "error"
    /\ UNCHANGED <<audioData, result, resultFrom, inflight, sent, apiKey>>
  ELSE
    /\ status' = "processing"
    /\ error' = Null
    /\ inflight' = inflight \cup {Request(sent + 1, audioData)}
    /\ sent' = sent + 1
    /\ UNCHANGED <<audioData, result, resultFrom, apiKey>>

\* handleTranscribe up to its await.  Without a credential transcribeAudio
\* rejects before it calls the service, and the catch block runs in the
\* same task: no other handler sees the processing state in between.
handleTranscribe ==
  IF ~Truthy(audioData) THEN
    UNCHANGED <<status, audioData, result, error, resultFrom, inflight, sent, apiKey>>
  ELSE IF credentialMissing THEN
    /\ error' = userMessage(MissingKeyError)
    /\ status' = "error"
    /\ UNCHANGED <<audioData, result, resultFrom, inflight, sent, apiKey>>
  ELSE
    /\ status' = "processing"
    /\ error' = Null
    /\ inflight' = inflight \cup {Request(sent + 1, audioData)}
    /\ sent' = sent + 1
    /\ UNCHANGED <<audioData, result, resultFrom, apiKey>>

\* handleTranscribeSettled with a catch block that also drops the payload
handleTranscribeSettledDropsPayload(r, outcome) ==
  /\ inflight' = inflight \ {r}
  /\ IF outcome.ok THEN
       /\ result' = outcome.data
       /\ resultFrom' = r.payload
       /\ status' = "success"
       /\ UNCHANGED <<error, audioData>>
     ELSE
       /\ error' = ErrorMessage
       /\ status' = "error"
       /\ audioData' = Null
       /\ UNCHANGED <<result, resultFrom>>
  /\ UNCHANGED <<sent, apiKey>>

\* handleTranscribeSettled with a catch block that calls the service again
handleTranscribeSettledRetries(r, outcome) ==
  IF outcome.ok \/ sent >= MaxSent THEN
    /\ inflight' = inflight \ {r}
    /\ IF outcome.ok THEN
         /\ result' = outcome.data
         /\ resultFrom' = r.payload
         /\ status' = "success"
         /\ UNCHANGED error
       ELSE
         /\ error' = userMessage(outcome.err)
         /\ status' = "error"
         /\ UNCHANGED <<result, resultFrom>>
    /\ UNCHANGED <<audioData, sent, apiKey>>
  ELSE
    /\ inflight' = (inflight \ {r}) \cup {Request(sent + 1, r.payload)}
    /\ sent' = sent + 1
    /\ UNCHANGED <<status, audioData, result, error, resultFrom, apiKey>>

\* handleTranscribe after its await: the try block's tail or the catch block
handleTranscribeSettled(r, outcome) ==
  /\ inflight' = inflight \ {r}
  /\ IF outcome.ok THEN
       /\ result' = outcome.data
       /\ resultFrom' = r.payload
       /\ status' = "success"
       /\ UNCHANGED error
     ELSE
       /\ error' = userMessage(outcome.err)
       /\ status' = "error"
       /\ UNCHANGED <<result, resultFrom>>
  /\ UNCHANGED <<audioData, sent, apiKey>>

\* handleReset without its setError(null)
handleResetKeepsError ==
  /\ audioData' = Null
  /\ result' = Null
  /\ resultFrom' = Null
  /\ status' = "idle"
  /\ inflight' = {Superseded(r) : r \in inflight}
  /\ UNCHANGED <<error, sent, apiKey>>

handleReset ==
  /\ audioData' = Null
  /\ result' = Null
  /\ resultFrom' = Null
  /\ status' = "idle"
  /\ error' = Null
  /\ inflight' = {Superseded(r) : r \in inflight}
  /\ UNCHANGED <<sent, apiKey>>

(***************************************************************************)
(* What App renders, as a function of the state                            *)
(***************************************************************************)
\* TranscriptionDisplay calls data.segments.map: a TypeError when the data
\* has no segments, and with no error boundary React unmounts the whole tree
RendersResults(st, res) == Truthy(res) /\ st = "success"
Crashed == RendersResults(status, result) /\ result.kind # "object"

TabsRendered == ~Crashed /\ ~Truthy(result)
TabsEnabled == TabsRendered /\ status # "processing"
\* the input section rendered without looking at the status
InputRenderedWhileProcessing(m, st, res) == ~Truthy(res)
InputRendered(m, st, res) == ~Truthy(res) /\ st # "processing"
UploaderMounted(m, st, res) == InputRendered(m, st, res) /\ m = "upload"
RecorderMounted == InputRendered(mode, status, result) /\ mode = "record"
TranscribeRendered == InputRendered(mode, status, result) /\ Truthy(audioData)
StartOverRendered == RendersResults(status, result) /\ ~Crashed

\* FileUploader keeps its fileName only while it stays mounted
KeepsFileName(fn) ==
  fileName' = IF /\ UploaderMounted(mode, status, result)
                 /\ UploaderMounted(mode', status', result')
              THEN fn ELSE Null

(***************************************************************************)
(* The application: what the user can do with what is rendered             *)
(***************************************************************************)
\* the Record Audio tab: setMode('record'); handleReset()
ClickRecordTab ==
  /\ TabsEnabled
  /\ mode' = "record"
  /\ handleReset
  /\ KeepsFileName(fileName)
  /\ last' = Did("handleReset", NoReply, Null, FALSE)
  /\ UNCHANGED selected
  /\ UNCHANGED reading

\* the Upload File tab: setMode('upload'); handleReset()
ClickUploadTab ==
  /\ TabsEnabled
  /\ mode' = "upload"
  /\ handleReset
  /\ KeepsFileName(fileName)
  /\ last' = Did("handleReset", NoReply, Null, FALSE)
  /\ UNCHANGED selected
  /\ UNCHANGED reading

\* the Start Over button of the results section
ClickStartOver ==
  /\ StartOverRendered
  /\ handleReset
  /\ last' = Did("handleReset", NoReply, Null, FALSE)
  /\ UNCHANGED selected
  /\ UNCHANGED <<mode, reading>>
  /\ KeepsFileName(fileName)

\* AudioRecorder hands a finished recording to onAudioCaptured
RecorderCapture ==
  /\ RecorderMounted
  /\ handleAudioReady(RecordedPayload)
  /\ last' = Did("handleAudioReady", NoReply, RecordedPayload, FALSE)
  /\ UNCHANGED selected
  /\ UNCHANGED <<mode, reading>>
  /\ KeepsFileName(fileName)

\* handleDrop / handleChange: the drop zone is rendered while no file is named
processFile(file) ==
  /\ UploaderMounted(mode, status, result)
  /\ ~Truthy(fileName)
  /\ IF ~Accepted(file) THEN
       UNCHANGED <<fileName, reading>>
     ELSE
       /\ fileName' = Str(file.name)
       /\ reading' = reading \cup {file}
  /\ last' = Did("processFile", NoReply, file, FALSE)
  /\ selected' = IF Accepted(file) THEN Selected(file, "pending") ELSE selected
  /\ UNCHANGED <<mode, status, audioData, result, error, apiKey,
                 inflight, sent, resultFrom>>

\* the Remove file button
handleClear ==
  /\ UploaderMounted(mode, status, result)
  /\ Truthy(fileName)
  /\ fileName' = Null
  /\ last' = Did("handleClear", NoReply, Null, FALSE)
  /\ UNCHANGED selected
  /\ UNCHANGED <<mode, status, audioData, result, error, apiKey,
                 reading, inflight, sent, resultFrom>>

\* reader.onloadend.  After a failed read reader.result is null and the
\* split throws before onFileSelected; after a crash setState does nothing.
onloadend(file, loaded) ==
  /\ file \in reading
  /\ reading' = reading \ {file}
  /\ selected' = IF selected # Null /\ selected.file = file
                 THEN Selected(file, IF loaded THEN "loaded" ELSE "failed")
                 ELSE selected
  /\ UNCHANGED mode
  /\ IF loaded /\ ~Crashed THEN
       /\ handleAudioReady(FilePayload(file))
       /\ KeepsFileName(fileName)
       /\ last' = Did("handleAudioReady", NoReply, FilePayload(file), FALSE)
     ELSE
       /\ last' = Did("onloadend", NoReply, file, FALSE)
       /\ UNCHANGED <<status, audioData, result, error, apiKey,
                      fileName, inflight, sent, resultFrom>>

\* the Generate Transcript button.  The processing state is rendered before
\* the request settles, so the uploader is unmounted in every case.
ClickTranscribe ==
  /\ TranscribeRendered
  /\ sent < MaxSent
  /\ handleTranscribe
  /\ fileName' = Null
  /\ last' = Did("handleTranscribe", NoReply, Null, FALSE)
  /\ UNCHANGED selected
  /\ UNCHANGED <<mode, reading>>

\* the service answers a request (or the call throws) and the await resumes
Settle(r, reply) ==
  /\ r \in inflight
  /\ handleTranscribeSettled(r, transcribeAudio(reply))
  /\ last' = Did("settled", reply, r.payload, r.superseded)
  /\ UNCHANGED selected
  /\ UNCHANGED <<mode, reading>>
  /\ KeepsFileName(fileName)

Next ==
  \/ ClickRecordTab
  \/ ClickUploadTab
  \/ ClickStartOver
  \/ RecorderCapture
  \/ \E file \in Files : processFile(file)
  \/ handleClear
  \/ \E file \in Files, loaded \in BOOLEAN : onloadend(file, loaded)
  \/ ClickTranscribe
  \/ \E r \in inflight, reply \in Replies : Settle(r, reply)

Spec == Init /\ [][Next]_vars

\* the application with a service that settles every request: the awaited
\* generateContent promise resolves or rejects, and the await resumes
FairSpec ==
  Spec /\ WF_vars(\E r \in inflight, reply \in Replies : Settle(r, reply))

(***************************************************************************)
(* The controller alone: its three inbound triggers called in any order,   *)
(* as a caller of the handlers (a test, another front end) may call them   *)
(***************************************************************************)
onCaptureComplete(data) ==
  /\ handleAudioReady(data)
  /\ last' = Did("handleAudioReady", NoReply, data, FALSE)
  /\ UNCHANGED selected
  /\ UNCHANGED <<mode, fileName, reading>>

onTranscribeRequested ==
  /\ sent < MaxSent
  /\ handleTranscribe
  /\ last' = Did("handleTranscribe", NoReply, Null, FALSE)
  /\ UNCHANGED selected
  /\ UNCHANGED <<mode, fileName, reading>>

onResetRequested ==
  /\ handleReset
  /\ last' = Did("handleReset", NoReply, Null, FALSE)
  /\ UNCHANGED selected
  /\ UNCHANGED <<mode, fileName, reading>>

ControllerNext ==
  \/ \E data \in Payloads : onCaptureComplete(data)
  \/ onTranscribeRequested
  \/ onResetRequested
  \/ \E r \in inflight, reply \in Replies : Settle(r, reply)

ControllerSpec == Init /\ [][ControllerNext]_vars

(***************************************************************************)
(* The response parser alone, applied to every text of the bounded set     *)
(***************************************************************************)
ParserInit ==
  /\ mode = "record"
  /\ status = "idle"
  /\ audioData = Null
  /\ result = Null
  /\ error = Null
  /\ apiKey = TRUE
  /\ fileName = Null
  /\ reading = {}
  /\ inflight = {}
  /\ sent = 0
  /\ resultFrom = Null
  /\ selected = Null
  /\ \E text \in Texts :
       last = Did("text", [kind |-> "text", text |-> text], Null, FALSE)

\* const data = parseJson(text)
ApplyParseJson ==
  /\ last.op = "text"
  /\ result' = parseJson(last.reply.text)
  /\ last' = [last EXCEPT !.op = "parseJson"]
  /\ UNCHANGED selected
  /\ UNCHANGED <<mode, status, audioData, error, apiKey, fileName, reading,
                 inflight, sent, resultFrom>>

ParserNext == ApplyParseJson

ParserSpec == ParserInit /\ [][ParserNext]_vars

TypeOK ==
  /\ mode \in {"record", "upload"}
  /\ status \in {"idle", "processing", "success", "error"}
  /\ audioData \in Payloads \cup {Null}
  /\ error \in {Null, ErrorMessage}
  /\ apiKey \in BOOLEAN
  /\ fileName \in {Str(f.name) : f \in Files} \cup {Null}
  /\ reading \subseteq Files
  /\ sent \in 0..MaxSent
  /\ Cardinality(inflight) <= sent
  /\ selected \in {Null} \cup
       {Selected(f, rd) : f \in Files, rd \in {"pending", "loaded", "failed"}}

(***************************************************************************)
(* Claims                                                                  *)
(***************************************************************************)
\* the text is no JSON after the cleaning parseJson does
Unparseable(text) == ~JSONParses(trim(stripFences(text)))

\* the request that settled last failed: the call threw or gave no text
SettledFailed ==
  /\ last.op = "settled"
  /\ last.reply.kind = "throw" \/ last.reply.text = <<>>

\* the request that settled last gave a text
SettledWithText ==
  /\ last.op = "settled"
  /\ last.reply.kind = "text"
  /\ last.reply.text # <<>>

\* C1: the outcome of a request that a capture or a reset has superseded
\* changes nothing of the session when it arrives (status, payload, response
\* and error message stay as they are).
C1_StaleOutcomeIgnored ==
  [][\A r \in inflight :
       (r.superseded /\ r \notin inflight') => UNCHANGED session]_vars

\* C2: at most one transcription request is in flight, whatever the user
\* does with what is rendered and however the completions are ordered.
C2_AtMostOneInFlight == Cardinality(inflight) <= 1

C2_Witness ==
  /\ Cardinality(inflight) = 1
  /\ sent = 2
  /\ reading # {}

\* C3: a transcription start while the status is processing changes neither
\* the session nor the requests in flight.
C3_StartWhileProcessingIsNoOp ==
  [][(status = "processing" /\ last'.op = "handleTranscribe")
       => UNCHANGED <<session, inflight, sent>>]_vars

\* C4: after a reset, from whatever status, the session is idle and holds
\* no payload, no response and no error message.
C4_ResetClearsSession ==
  last.op = "handleReset" =>
    /\ status = "idle"
    /\ audioData = Null
    /\ result = Null
    /\ error = Null

C4_Witness ==
  /\ last.op = "handleReset"
  /\ last.from = "processing"
  /\ Truthy(last.payload)
  /\ inflight # {}

C6_SuccessHoldsParsedResponse ==
  SettledWithText =>
    /\ last.from = "processing"
    /\ status = "success"
    /\ result = parseJson(last.reply.text)
    /\ \A d \in DocLexemes :
         last.reply.text \in {<<d>>, Fenced(d)} => result = DocValue(d)

C6_Witness ==
  /\ SettledWithText
  /\ last.reply.text = Fenced("{B}")
  /\ status = "success"
  /\ result.summary = "Greeting."
  /\ result.segments = <<Seg1, Seg2>>

\* C7: for a text that is no JSON after cleaning, the parser returns the
\* empty transcript { summary: "", segments: [] }.
C7_UnparseableGivesEmptyTranscript ==
  (last.op = "parseJson" /\ Unparseable(last.reply.text)) =>
    result = Transcript("", <<>>)

\* C8: a non-empty text that cannot be parsed takes the session from
\* processing to success, not to error, and no error message is set.
C8_ParseFailureIsNotAnError ==
  (SettledWithText /\ Unparseable(last.reply.text)) =>
    /\ last.from = "processing"
    /\ status = "success"
    /\ error = Null

C8_Witness ==
  /\ SettledWithText
  /\ last.reply.text = <<"oops">>
  /\ status = "success"

\* C9: without a credential a transcription start sends nothing to the
\* service and leaves the session in error, with the tree still mounted.
C9_MissingCredentialFailsFast ==
  ~apiKey =>
    /\ sent = 0
    /\ inflight = {}
    /\ last.op = "handleTranscribe" =>
         /\ status = "error"
         /\ error = ErrorMessage
         /\ ~Crashed

C9_Witness ==
  /\ ~apiKey
  /\ last.op = "handleTranscribe"
  /\ Truthy(last.payload)
  /\ status = "error"

\* C10: the session has the shape of the SessionState union: a payload is
\* held in processing, success and error, a response in success, an error
\* message in error.
C10_SessionStateShape ==
  /\ status \in {"processing", "success", "error"} => Truthy(audioData)
  /\ status = "success" => Truthy(result)
  /\ status = "error" => Truthy(error)

\* the ready state of the session: the code has no status of that name,
\* ready is the idle status with a payload held
Ready == status = "idle" /\ Truthy(audioData)

\* C11: a capture delivered in idle, ready or error leaves the session
\* ready, not in error, holding the captured payload, with no response and
\* no error message.
C11_CaptureLeavesReady ==
  (last.op = "handleAudioReady" /\ last.from \in {"idle", "error"}) =>
    /\ status # "error"
    /\ Ready
    /\ audioData = last.req
    /\ result = Null
    /\ error = Null

\* the declared type of the file is neither audio/... nor video/...
NeitherAudioNorVideo(file) ==
  \/ file.type = <<>>
  \/ file.type[1] \notin {"audio/", "video/"}

\* C12: a dropped or picked file whose type is neither audio/* nor video/*
\* starts no read and emits no payload, and the session (status, payload,
\* response, error) is left as it was.
C12_RejectedFileChangesNothing ==
  [][(last'.op = "processFile" /\ NeitherAudioNorVideo(last'.req))
       => UNCHANGED <<session, fileName, reading, inflight>>]_vars

C12_Witness ==
  /\ last.op = "processFile"
  /\ last.req.name = "c.txt"
  /\ Truthy(audioData)
  /\ status = "error"

\* C13: the error message of the session is absent or the fixed generic
\* text; a missing credential, a failed call and an empty response all
\* leave that same text, never the detail of the underlying error.
C13_ErrorMessageIsGeneric ==
  /\ error \in {Null, ErrorMessage}
  /\ error \notin {Str(detail) : detail \in ErrorDetails}
  /\ SettledFailed => error = ErrorMessage
  /\ (last.op = "handleTranscribe" /\ ~apiKey /\ Truthy(last.payload)) =>
       error = ErrorMessage

C13_Witness ==
  /\ SettledFailed
  /\ last.reply.kind = "throw"
  /\ error = ErrorMessage
  /\ sent = 2

\* the requests dispatched by the step: those in flight after it whose
\* id was not in flight before it
Dispatched == {r \in inflight' : r.id \notin {q.id : q \in inflight}}

\* C14: every request sent to the service is dispatched by one run of the
\* user-triggered handleTranscribe, which dispatches at most one; no other
\* step, the handling of a failure included, dispatches a request.
C14_NoAutomaticRetry ==
  [][/\ sent' - sent = Cardinality(Dispatched)
     /\ Cardinality(Dispatched) <= 1
     /\ Dispatched # {} => last'.op = "handleTranscribe"
     /\ (last'.op = "settled" /\ ~transcribeAudio(last'.reply).ok) =>
          /\ Dispatched = {}
          /\ {r.id : r \in inflight'} \subseteq {q.id : q \in inflight}]_vars

\* a request failed and nothing is in flight until the user starts again
C14_Witness ==
  /\ SettledFailed
  /\ sent = 1
  /\ inflight = {}
  /\ status = "error"

\* C15 as stated: the schema of every request makes exactly speaker,
\* timestamp, content, language, languageCode and emotion mandatory for a
\* segment and restricts emotion to Happy, Sad, Angry, Neutral.
C15_SchemaRequiresLanguageCode ==
  \A r \in inflight :
    /\ r.schema.segments.required =
         {"speaker", "timestamp", "content", "language", "languageCode",
          "emotion"}
    /\ r.schema.segments.emotion = {"Happy", "Sad", "Angry", "Neutral"}

\* C15 amended: for every payload the schema of the request makes exactly
\* speaker, timestamp, content, language, language_code and emotion
\* mandatory for a segment (the field is named language_code, and the
\* schema has no field languageCode) and restricts emotion to Happy, Sad,
\* Angry, Neutral.
C15_SchemaRequiresLanguageUnderscoreCode ==
  \A r \in inflight :
    /\ r.payload \in Payloads
    /\ r.schema.segments.required =
         {"speaker", "timestamp", "content", "language", "language_code",
          "emotion"}
    /\ "languageCode" \notin r.schema.segments.properties
    /\ r.schema.segments.emotion = {"Happy", "Sad", "Angry", "Neutral"}

\* the second request of the session is in flight, for an uploaded video
C15_Witness ==
  \E r \in inflight :
    /\ r.id = 2
    /\ r.payload.blob = "b.mp4"
    /\ r.schema = responseSchema

\* the text is standard base64: alphabet characters in groups of four,
\* padded with = at the end only; in particular no data: and no comma
IsBase64(text) ==
  /\ Len(text) % 4 = 0
  /\ \A i \in 1..Len(text) :
       \/ \E k \in 1..64 : B64Chars[k] = text[i]
       \/ text[i] = "=" /\ i > Len(text) - 2
            /\ \A j \in i..Len(text) : text[j] = "="

\* C16: a payload the uploader emits has a base64 field without data-URL
\* prefix that decodes to exactly the bytes of the file it was read from,
\* and the media type of that file, which starts with audio/ or video/; a
\* read that ends in failure emits nothing and the session keeps its payload.
C16_EmittedPayloadIsWellFormed ==
  /\ (last.op = "handleAudioReady" /\ last.req # RecordedPayload) =>
       \E file \in Files :
         /\ file.name = last.req.blob
         /\ IsBase64(last.req.base64)
         /\ Base64Decode(last.req.base64) = file.bytes
         /\ last.req.mimeType = file.type
         /\ last.req.mimeType[1] \in {"audio/", "video/"}
         /\ audioData = last.req
  /\ last.op = "onloadend" => audioData = last.payload

\* the five-byte video was read and emitted after an earlier payload
C16_Witness ==
  /\ last.op = "handleAudioReady"
  /\ last.req.blob = "b.mp4"
  /\ Base64Decode(audioData.base64) = <<251, 255, 190, 0, 16>>
  /\ Truthy(last.payload)

\* C17: for every text that is valid JSON, parseJson gives for the text
\* wrapped in a code block (a <ticks>json line before it, a <ticks> line
\* after it, lines ended by a newline character) the value it gives for
\* the text itself, which is the value of the document.
C17_FencesDoNotChangeTheResult ==
  last.op = "parseJson" =>
    \A t \in SeqsUpTo(Lexemes, MaxTextLen) :
      (last.reply.text = Wrap(t) /\ JSONParses(t)) =>
        /\ result = parseJson(t)
        /\ result = JSONParse(t)

\* a padded two-segment transcript inside a code block was parsed
C17_Witness ==
  /\ last.op = "parseJson"
  /\ last.reply.text = Wrap(<<" ", "{B}">>)
  /\ result = DocValue("{B}")

\* C18: a transcription start while no payload is held changes nothing:
\* the status does not become processing, no request is dispatched, and
\* response and error stay as they were; and the status becomes processing
\* only in a step that starts from a state holding a payload.
C18_StartWithoutPayloadIsNoOp ==
  [][/\ (last'.op = "handleTranscribe" /\ ~Truthy(audioData)) =>
          /\ UNCHANGED <<session, inflight, sent>>
          /\ status' # "processing"
          /\ Dispatched = {}
     /\ (status # "processing" /\ status' = "processing") =>
          /\ Truthy(audioData)
          /\ audioData' = audioData]_vars

\* a start without payload arrived in the error state a stale failure left
C18_Witness ==
  /\ last.op = "handleTranscribe"
  /\ last.payload = Null
  /\ last.from = "error"
  /\ status = "error"
  /\ error = ErrorMessage

\* a control that calls handleReset is rendered and enabled: one of the
\* two tabs, or the Start Over button
ResetEnabled == TabsEnabled \/ StartOverRendered

\* every processing state is followed by a success or an error state
ProcessingEnds == (status = "processing") ~> (status \in {"success", "error"})

\* C19: with a service that settles every request, processing is always
\* followed by success or error, and in success and in error a reset can
\* be triggered.
C19_ProcessingEndsAndIsResettable ==
  /\ ProcessingEnds
  /\ [](status \in {"success", "error"} => ResetEnabled)

\* C20: when no read is pending, the file selected last was read with
\* success and the payload of a file is the last thing delivered to the
\* session, the session holds the payload of the file selected last, with
\* its blob, base64 and mimeType.
C20_LastSelectedFileWins ==
  ( /\ reading = {}
    /\ selected # Null
    /\ selected.read = "loaded"
    /\ last.op = "handleAudioReady"
    /\ last.req # RecordedPayload ) =>
      /\ audioData = FilePayload(selected.file)
      /\ audioData.blob = selected.file.name
      /\ audioData.base64 = Base64(selected.file.bytes)
      /\ audioData.mimeType = selected.file.type

\* C21: while the uploader is mounted and no read is pending, the uploader
\* shows a file name exactly when the session holds a payload; after the
\* Remove file button no transcription can be started, and after a reset
\* the uploader shows no file name.
C21_UploaderAndSessionAgree ==
  (UploaderMounted(mode, status, result) /\ reading = {}) =>
    /\ Truthy(fileName) <=> Truthy(audioData)
    /\ last.op = "handleClear" => ~TranscribeRendered
    /\ last.op = "handleReset" => ~Truthy(fileName)

====
